---- MODULE Spec2Model ----
(***************************************************************************)
(* The CATS runtime trace engine (src/runtime/cats_runtime.cpp): the       *)
(* class CATS_Trace, its global instance g_cats_trace, and the threads     *)
(* that call its entry points.                                             *)
(*                                                                         *)
(* The engine is one record; every member function is an operator from an  *)
(* engine value to the engine value it leaves behind.  The build modelled  *)
(* is the default one: CATS_STACK_IDENTIFIER_STRATEGY_VERY_FAST, all       *)
(* CATS_RUNTIME_* switches 0.                                              *)
(*                                                                         *)
(* Addresses, sizes and ids are small naturals.  Address 0 is the null     *)
(* pointer.  stack_id is a uint64_t; every sum formed here stays far below *)
(* 2^64, so the additions never wrap and are written without a modulus.    *)
(* Names are sequences of one-character strings; the empty sequence stands *)
(* for both a null pointer and an empty C string (the code treats the two  *)
(* alike).                                                                 *)
(***************************************************************************)
EXTENDS Integers, Sequences, FiniteSets, TLC

VARIABLES
  g_cats_trace,   \* the engine: events, allocations, scope_ids, scope_stack,
                  \* recorded_calls, stack_id
  files,          \* the file system: path -> document written there
  mutex,          \* the threads inside a lock_guard on _mutex
  pc,             \* per thread: "idle", "waiting" (blocked in lock_guard), "locked"
  req,            \* per thread: the call it is executing
  in_parallel,    \* an OpenMP parallel region of the team is active
  \* ---- history variables (observations, never read by the engine) ----
  budget,         \* calls the threads may still make (bounds the run)
  last,           \* the last call whose body ran
  prev,           \* the engine just before that call
  hist,           \* what each call since the last reset did
  after_reset,    \* a reset() has run
  reset_from,     \* the engine just before the last reset()
  fresh,          \* a freshly constructed engine fed the calls since the last reset
  nodedup,        \* an engine with deduplication disabled fed the same calls
  freed,          \* addresses whose record a dealloc removed, not registered since
  serial,         \* the engine fed the calls in the order they took the lock
  solo,           \* the engine fed only the calls of participating threads
  skipped         \* calls that returned at the participation gate

vars == <<g_cats_trace, files, mutex, pc, req, in_parallel, budget, last, prev,
          hist, after_reset, reset_from, fresh, nodedup, freed, serial, solo,
          skipped>>

----------------------------------------------------------------------------
(* Program constants *)

CATS_TRACE_FILE_NAME_SIZE == 256
CATS_TRACE_FUNC_NAME_SIZE == 64
CATS_TRACE_BUFFER_NAME_SIZE == 64

CATS_STACK_IDENTIFIER_STRATEGY_DEFAULT == 0
CATS_STACK_IDENTIFIER_STRATEGY_FAST == 1
CATS_STACK_IDENTIFIER_STRATEGY_VERY_FAST == 2

CATS_SCOPE_TYPE_FUNCTION == 0
CATS_SCOPE_TYPE_LOOP == 1
CATS_SCOPE_TYPE_CONDITIONAL == 2
CATS_SCOPE_TYPE_PARALLEL == 3
CATS_SCOPE_TYPE_UNSTRUCTURED == 4

\* the string literal "$UNKNOWN$"
UNKNOWN == <<"$", "U", "N", "K", "N", "O", "W", "N", "$">>

\* the path save() opens, whatever path it is given
TraceFile == "cats_trace.cats"

----------------------------------------------------------------------------
(* Helpers *)

EmptyMap == [x \in {} |-> x]

Max(S) == CHOOSE x \in S : \A y \in S : y <= x

Min(S) == CHOOSE x \in S : \A y \in S : x <= y

\* std::map::operator[] assignment
MapPut(m, k, v) == [x \in (DOMAIN m) \cup {k} |-> IF x = k THEN v ELSE m[x]]

\* std::map::erase
MapErase(m, k) == [x \in (DOMAIN m) \ {k} |-> m[x]]

\* a variant that copies as many characters as the array has bytes
strncpy_whole_array(src, n) == IF Len(src) <= n + 1 THEN src ELSE SubSeq(src, 1, n + 1)

\* strncpy(dst, src, n); dst[n] = '\0'
strncpy(src, n) == IF Len(src) <= n THEN src ELSE SubSeq(src, 1, n)

\* if (!name || !*name) name = "$UNKNOWN$";
or_unknown(name) == IF name = <<>> THEN UNKNOWN ELSE name

----------------------------------------------------------------------------
(* class CATS_Trace *)

\* the engine after construction
CATS_Trace ==
  [ events         |-> <<>>,
    allocations    |-> EmptyMap,
    scope_ids      |-> {},
    scope_stack    |-> <<>>,
    recorded_calls |-> EmptyMap,
    stack_id       |-> 0,
    \* the build: CATS_STACK_IDENTIFIER_STRATEGY, VERY_FAST unless defined
    \* otherwise.  stack_id is a member in the VERY_FAST build only; in the
    \* other builds the model carries it along and nothing reads it.
    strategy       |-> CATS_STACK_IDENTIFIER_STRATEGY_VERY_FAST ]

\* the engine of a build with -DCATS_STACK_IDENTIFIER_STRATEGY=strategy
CATS_Trace_built(strategy) == [CATS_Trace EXCEPT !.strategy = strategy]

\* operator<< of an unsigned integer: its decimal digits
RECURSIVE Decimal(_)
Decimal(n) ==
  LET digit == <<"0", "1", "2", "3", "4", "5", "6", "7", "8", "9">>[(n % 10) + 1]
  IN  IF n < 10 THEN <<digit>> ELSE Append(Decimal(n \div 10), digit)

\* a variant that renders the innermost scope only
get_stack_identifier_top_only(stack) ==
  IF stack = <<>> THEN <<>> ELSE Decimal(stack[Len(stack)])

\* get_stack_identifier: the ids in decimal, bottom to top, separated by ","
RECURSIVE get_stack_identifier(_)
get_stack_identifier(stack) ==
  IF stack = <<>> THEN <<>>
  ELSE IF Len(stack) = 1 THEN Decimal(stack[1])
  ELSE Decimal(stack[1]) \o <<",">> \o get_stack_identifier(Tail(stack))

\* the signature already_recorded() judges a call under
signature(e) ==
  IF e.strategy = CATS_STACK_IDENTIFIER_STRATEGY_VERY_FAST
  THEN e.stack_id
  ELSE get_stack_identifier(e.scope_stack)

\* this->stack_id = 0; for (auto &id : this->_scope_stack) this->stack_id += id;
RECURSIVE stack_sum(_)
stack_sum(stack) ==
  IF stack = <<>> THEN 0 ELSE Head(stack) + stack_sum(Tail(stack))

\* a variant that looks at the callsite id alone and ignores the signature
already_recorded_any_stack(e, call_id) == call_id \in DOMAIN e.recorded_calls

\* already_recorded: the value it returns
already_recorded(e, call_id) ==
  /\ call_id \in DOMAIN e.recorded_calls
  /\ signature(e) \in e.recorded_calls[call_id]

\* a variant that keeps only the latest signature of a callsite
already_recorded_effect_overwrites(e, call_id) ==
  [e EXCEPT !.recorded_calls = MapPut(@, call_id, {signature(e)})]

\* already_recorded: the engine it leaves (the pair is inserted when new)
already_recorded_effect(e, call_id) ==
  IF call_id \in DOMAIN e.recorded_calls
  THEN [e EXCEPT !.recorded_calls[call_id] = @ \cup {signature(e)}]
  ELSE [e EXCEPT !.recorded_calls = MapPut(@, call_id, {signature(e)})]

\* a variant that puts the new event at the front of the log
record_event_push_front(e, event_type, args, di) ==
  [e EXCEPT !.events = <<
     [ event_type |-> event_type,
       args       |-> args,
       debug_info |->
         [ funcname |-> strncpy(or_unknown(di.funcname), CATS_TRACE_FUNC_NAME_SIZE - 1),
           filename |-> strncpy(or_unknown(di.filename), CATS_TRACE_FILE_NAME_SIZE - 1),
           line     |-> di.line,
           col      |-> di.col ] ]>> \o @]

record_event(e, event_type, args, di) ==
  [e EXCEPT !.events = Append(@,
     [ event_type |-> event_type,
       args       |-> args,
       debug_info |->
         [ funcname |-> strncpy(or_unknown(di.funcname), CATS_TRACE_FUNC_NAME_SIZE - 1),
           filename |-> strncpy(or_unknown(di.filename), CATS_TRACE_FILE_NAME_SIZE - 1),
           line     |-> di.line,
           col      |-> di.col ] ])]

\* a variant that leaves the set of open scopes as it is
reset_keeps_scope_ids(e) ==
  [e EXCEPT !.events = <<>>,
            !.allocations = EmptyMap,
            !.scope_stack = <<>>,
            !.recorded_calls = EmptyMap]

reset(e) ==
  [e EXCEPT !.events = <<>>,
            !.allocations = EmptyMap,
            !.scope_ids = {},
            !.scope_stack = <<>>,
            !.recorded_calls = EmptyMap]

instrument_alloc(e, call_id, buffer_name, address, size, di) ==
  IF already_recorded(e, call_id) THEN e
  ELSE
    LET e1   == already_recorded_effect(e, call_id)
        name == strncpy(or_unknown(buffer_name), CATS_TRACE_BUFFER_NAME_SIZE - 1)
        args == [buffer_name |-> name, buffer_id |-> address, size |-> size]
        e2   == record_event(e1, "allocation", args, di)
    IN  [e2 EXCEPT !.allocations = MapPut(@, address,
           [buffer_name |-> name, buffer_id |-> address, size |-> size])]

\* a variant whose dedup key also holds the event kind: a deallocation asks
\* under a callsite key of its own
instrument_dealloc_keyed_by_kind(e, call_id, address, di) ==
  LET key == call_id + 100
  IN  IF already_recorded(e, key) THEN e
      ELSE
        LET e1 == already_recorded_effect(e, key)
        IN  IF address \in DOMAIN e1.allocations
            THEN
              LET it   == e1.allocations[address]
                  args == [ buffer_name |-> strncpy(it.buffer_name, CATS_TRACE_BUFFER_NAME_SIZE - 1),
                            buffer_id   |-> it.buffer_id ]
                  e2   == record_event(e1, "deallocation", args, di)
              IN  [e2 EXCEPT !.allocations = MapErase(@, address)]
            ELSE e1

instrument_dealloc(e, call_id, address, di) ==
  IF already_recorded(e, call_id) THEN e
  ELSE
    LET e1 == already_recorded_effect(e, call_id)
    IN  IF address \in DOMAIN e1.allocations
        THEN
          LET it   == e1.allocations[address]
              args == [ buffer_name |-> strncpy(it.buffer_name, CATS_TRACE_BUFFER_NAME_SIZE - 1),
                        buffer_id   |-> it.buffer_id ]
              e2   == record_event(e1, "deallocation", args, di)
          IN  [e2 EXCEPT !.allocations = MapErase(@, address)]
        ELSE e1

\* a variant that takes the record below the address without looking at its size
find_containing_unbounded(allocations, address) ==
  LET none == [buffer_name |-> <<>>, buffer_id |-> 0]
      pick(base) == [ buffer_name |-> allocations[base].buffer_name,
                      buffer_id   |-> allocations[base].buffer_id ]
      below == {b \in DOMAIN allocations : b < address}
  IN  IF address \in DOMAIN allocations THEN pick(address)
      ELSE IF below # {} THEN pick(Max(below)) ELSE none

\* the lookup of instrument_access: the (buffer_name, buffer_id) it ends with
find_containing(allocations, address) ==
  LET none == [buffer_name |-> <<>>, buffer_id |-> 0]
      pick(base) == [ buffer_name |-> allocations[base].buffer_name,
                      buffer_id   |-> allocations[base].buffer_id ]
      \* lower_bound(address): the keys not below address; `it` is the least
      notbelow == {b \in DOMAIN allocations : b >= address}
      below    == {b \in DOMAIN allocations : b < address}
  IN  IF notbelow # {} /\ Min(notbelow) = address
      THEN pick(address)
      ELSE IF below # {}                      \* it != begin(); --it
           THEN LET b == Max(below)
                IN  IF address <= b + allocations[b].size THEN pick(b) ELSE none
           ELSE none

\* a variant that logs the access also when the lookup found no record
instrument_access_logs_unknown(e, call_id, address, is_write, di) ==
  IF already_recorded(e, call_id) THEN e
  ELSE
    LET e1    == already_recorded_effect(e, call_id)
        found == find_containing(e1.allocations, address)
        args  == [ buffer_name |-> strncpy(or_unknown(found.buffer_name),
                                            CATS_TRACE_BUFFER_NAME_SIZE - 1),
                   buffer_id   |-> found.buffer_id,
                   is_write    |-> is_write ]
    IN  record_event(e1, "access", args, di)

\* a variant that looks the address up first and asks the dedup memory only
\* about a call it is going to log
instrument_access_lookup_first(e, call_id, address, is_write, di) ==
  LET found == find_containing(e.allocations, address)
      args  == [ buffer_name |-> strncpy(or_unknown(found.buffer_name),
                                          CATS_TRACE_BUFFER_NAME_SIZE - 1),
                 buffer_id   |-> found.buffer_id,
                 is_write    |-> is_write ]
  IN  IF found.buffer_id = 0 THEN e
      ELSE IF already_recorded(e, call_id) THEN e
      ELSE record_event(already_recorded_effect(e, call_id), "access", args, di)

instrument_access(e, call_id, address, is_write, di) ==
  IF already_recorded(e, call_id) THEN e
  ELSE
    LET e1    == already_recorded_effect(e, call_id)
        found == find_containing(e1.allocations, address)
        args  == [ buffer_name |-> strncpy(or_unknown(found.buffer_name),
                                            CATS_TRACE_BUFFER_NAME_SIZE - 1),
                   buffer_id   |-> found.buffer_id,
                   is_write    |-> is_write ]
    IN  IF found.buffer_id # 0
        THEN record_event(e1, "access", args, di)
        ELSE e1

instrument_read(e, call_id, address, di) ==
  instrument_access(e, call_id, address, FALSE, di)

instrument_write(e, call_id, address, di) ==
  instrument_access(e, call_id, address, TRUE, di)

\* a variant that asks the oracle first and returns on a duplicate before
\* the scope is pushed
instrument_scope_entry_dedup_first(e, call_id, scope_id, type, di) ==
  LET pushed == [e EXCEPT !.scope_stack = Append(@, scope_id),
                          !.scope_ids = @ \cup {scope_id}]
      e1     == [pushed EXCEPT !.stack_id = stack_sum(pushed.scope_stack)]
  IN  IF already_recorded(e1, call_id) THEN e
      ELSE record_event(already_recorded_effect(e1, call_id), "scope_entry",
                        [scope_id |-> scope_id, type |-> type], di)

\* a variant that pushes the scope and leaves stack_id as it was
instrument_scope_entry_stale_sum(e, call_id, scope_id, type, di) ==
  LET e1 == [e EXCEPT !.scope_stack = Append(@, scope_id),
                      !.scope_ids = @ \cup {scope_id}]
  IN  IF already_recorded(e1, call_id) THEN e1
      ELSE record_event(already_recorded_effect(e1, call_id), "scope_entry",
                        [scope_id |-> scope_id, type |-> type], di)

instrument_scope_entry(e, call_id, scope_id, type, di) ==
  LET pushed == [e EXCEPT !.scope_stack = Append(@, scope_id),
                          !.scope_ids = @ \cup {scope_id}]
      e1     == [pushed EXCEPT !.stack_id = stack_sum(pushed.scope_stack)]
  IN  IF already_recorded(e1, call_id) THEN e1
      ELSE record_event(already_recorded_effect(e1, call_id), "scope_entry",
                        [scope_id |-> scope_id, type |-> type], di)

\* a variant of the loop that logs the inferred exits whatever the verdict
RECURSIVE scope_exit_loop_always_logs(_, _, _, _)
scope_exit_loop_always_logs(e, scope_id, recorded, di) ==
  IF e.scope_stack # <<>> /\ e.scope_stack[Len(e.scope_stack)] # scope_id
  THEN
    LET top == e.scope_stack[Len(e.scope_stack)]
        e1  == record_event(e, "scope_exit", [scope_id |-> top], di)
        e2  == [e1 EXCEPT !.scope_stack = SubSeq(@, 1, Len(@) - 1),
                          !.scope_ids = @ \ {top}]
        e3  == [e2 EXCEPT !.stack_id = stack_sum(e2.scope_stack)]
    IN  scope_exit_loop_always_logs(e3, scope_id, recorded, di)
  ELSE e

\* a variant of the loop that pops the scopes above without erasing them from
\* the set of open scopes
RECURSIVE scope_exit_loop_keeps_open(_, _, _, _)
scope_exit_loop_keeps_open(e, scope_id, recorded, di) ==
  IF e.scope_stack # <<>> /\ e.scope_stack[Len(e.scope_stack)] # scope_id
  THEN
    LET top == e.scope_stack[Len(e.scope_stack)]
        e1  == IF ~recorded
               THEN record_event(e, "scope_exit", [scope_id |-> top], di)
               ELSE e
        e2  == [e1 EXCEPT !.scope_stack = SubSeq(@, 1, Len(@) - 1)]
        e3  == [e2 EXCEPT !.stack_id = stack_sum(e2.scope_stack)]
    IN  scope_exit_loop_keeps_open(e3, scope_id, recorded, di)
  ELSE e

\* the while loop of instrument_scope_exit
RECURSIVE scope_exit_loop(_, _, _, _)
scope_exit_loop(e, scope_id, recorded, di) ==
  IF e.scope_stack # <<>> /\ e.scope_stack[Len(e.scope_stack)] # scope_id
  THEN
    LET top == e.scope_stack[Len(e.scope_stack)]
        e1  == IF ~recorded
               THEN record_event(e, "scope_exit", [scope_id |-> top], di)
               ELSE e
        e2  == [e1 EXCEPT !.scope_stack = SubSeq(@, 1, Len(@) - 1),
                          !.scope_ids = @ \ {top}]
        e3  == [e2 EXCEPT !.stack_id = stack_sum(e2.scope_stack)]
    IN  scope_exit_loop(e3, scope_id, recorded, di)
  ELSE e

\* a variant that logs the inferred exits of the scopes above before the exit
\* of the scope itself
instrument_scope_exit_inferred_first(e, call_id, scope_id, scope_type, di) ==
  IF scope_id \notin e.scope_ids THEN e
  ELSE
    LET e0       == [e EXCEPT !.scope_ids = @ \ {scope_id}]
        recorded == already_recorded(e0, call_id)
        e1       == already_recorded_effect(e0, call_id)
        e2       == scope_exit_loop(e1, scope_id, recorded, di)
        e3       == IF ~recorded
                    THEN record_event(e2, "scope_exit", [scope_id |-> scope_id], di)
                    ELSE e2
    IN  IF e3.scope_stack = <<>> \/ e3.scope_stack[Len(e3.scope_stack)] # scope_id
        THEN e3
        ELSE LET e4 == [e3 EXCEPT !.scope_stack = SubSeq(@, 1, Len(@) - 1)]
             IN  [e4 EXCEPT !.stack_id = stack_sum(e4.scope_stack)]

\* a variant that goes on when the scope id was not in the set of open scopes
instrument_scope_exit_no_open_check(e, call_id, scope_id, scope_type, di) ==
  LET e0       == [e EXCEPT !.scope_ids = @ \ {scope_id}]
      recorded == already_recorded(e0, call_id)
      e1       == already_recorded_effect(e0, call_id)
      e2       == IF ~recorded
                  THEN record_event(e1, "scope_exit", [scope_id |-> scope_id], di)
                  ELSE e1
      e3       == scope_exit_loop(e2, scope_id, recorded, di)
  IN  IF e3.scope_stack = <<>> \/ e3.scope_stack[Len(e3.scope_stack)] # scope_id
      THEN e3
      ELSE LET e4 == [e3 EXCEPT !.scope_stack = SubSeq(@, 1, Len(@) - 1)]
           IN  [e4 EXCEPT !.stack_id = stack_sum(e4.scope_stack)]

instrument_scope_exit(e, call_id, scope_id, scope_type, di) ==
  IF scope_id \notin e.scope_ids THEN e
  ELSE
    LET e0       == [e EXCEPT !.scope_ids = @ \ {scope_id}]
        recorded == already_recorded(e0, call_id)
        e1       == already_recorded_effect(e0, call_id)
        e2       == IF ~recorded
                    THEN record_event(e1, "scope_exit", [scope_id |-> scope_id], di)
                    ELSE e1
        e3       == scope_exit_loop(e2, scope_id, recorded, di)
    IN  IF e3.scope_stack = <<>> \/ e3.scope_stack[Len(e3.scope_stack)] # scope_id
        THEN e3
        ELSE LET e4 == [e3 EXCEPT !.scope_stack = SubSeq(@, 1, Len(@) - 1)]
             IN  [e4 EXCEPT !.stack_id = stack_sum(e4.scope_stack)]

\* What instrument_scope_exit prints on std::cout in a build with
\* CATS_RUNTIME_WARN_ON_SCOPE_EXIT_NOT_FOUND: a sequence of diagnostics, each
\* the text printed and the scope id it names.

\* the diagnostics of the while loop: one where a popped top was not in the
\* set of open scopes (the text names scope_id, not the top)
RECURSIVE scope_exit_loop_warnings(_, _)
scope_exit_loop_warnings(e, scope_id) ==
  IF e.scope_stack # <<>> /\ e.scope_stack[Len(e.scope_stack)] # scope_id
  THEN
    LET top == e.scope_stack[Len(e.scope_stack)]
        w   == IF top \notin e.scope_ids
               THEN <<[text |-> "Warning: Scope not found.", scope_id |-> scope_id]>>
               ELSE <<>>
        e2  == [e EXCEPT !.scope_stack = SubSeq(@, 1, Len(@) - 1),
                         !.scope_ids = @ \ {top}]
    IN  w \o scope_exit_loop_warnings(e2, scope_id)
  ELSE <<>>

instrument_scope_exit_warnings(e, call_id, scope_id, scope_type, di) ==
  IF scope_id \notin e.scope_ids
  THEN <<[text |-> "Warning: Scope not found.", scope_id |-> scope_id]>>
  ELSE
    LET e0 == [e EXCEPT !.scope_ids = @ \ {scope_id}]
        e3 == scope_exit_loop(e0, scope_id, TRUE, di)
    IN  scope_exit_loop_warnings(e0, scope_id) \o
        ( IF /\ e3.scope_stack = <<>> \/ e3.scope_stack[Len(e3.scope_stack)] # scope_id
             /\ scope_type # CATS_SCOPE_TYPE_PARALLEL
          THEN <<[text |-> "Warning: Exiting scope not found.", scope_id |-> scope_id]>>
          ELSE <<>> )

\* ofs << "\"" << name << "\"": the characters of the name between two double
\* quotes, written as they are stored
quoted(name) == <<"\"">> \o name \o <<"\"">>

\* a variant of the switch without the case CATS_SCOPE_TYPE_PARALLEL
scope_type_tag_no_para(type) ==
  CASE type = CATS_SCOPE_TYPE_FUNCTION -> "func"
    [] type = CATS_SCOPE_TYPE_LOOP -> "loop"
    [] type = CATS_SCOPE_TYPE_CONDITIONAL -> "cond"
    [] type = CATS_SCOPE_TYPE_UNSTRUCTURED -> "unst"
    [] OTHER -> "n/a"

\* switch (args->type): the tag written as "scope_type"
scope_type_tag(type) ==
  CASE type = CATS_SCOPE_TYPE_FUNCTION -> "func"
    [] type = CATS_SCOPE_TYPE_LOOP -> "loop"
    [] type = CATS_SCOPE_TYPE_CONDITIONAL -> "cond"
    [] type = CATS_SCOPE_TYPE_PARALLEL -> "para"
    [] type = CATS_SCOPE_TYPE_UNSTRUCTURED -> "unst"
    [] OTHER -> "n/a"

\* one element of the "events" array, as save() writes it: the names are the
\* character sequences between the separators, the numbers are numbers
render_event(event) ==
  LET common == [ funcname |-> quoted(event.debug_info.funcname),
                  filename |-> quoted(event.debug_info.filename),
                  line     |-> event.debug_info.line,
                  col      |-> event.debug_info.col ]
      a == event.args
  IN  CASE event.event_type = "allocation" ->
             [common |-> common, type |-> "allocation",
              fields |-> [buffer_name |-> quoted(a.buffer_name),
                          buffer_id |-> a.buffer_id, size |-> a.size]]
        [] event.event_type = "deallocation" ->
             [common |-> common, type |-> "deallocation",
              fields |-> [buffer_name |-> quoted(a.buffer_name),
                          buffer_id |-> a.buffer_id]]
        [] event.event_type = "access" ->
             [common |-> common, type |-> "access",
              fields |-> [mode |-> IF a.is_write THEN "w" ELSE "r",
                          buffer_name |-> quoted(a.buffer_name),
                          buffer_id |-> a.buffer_id]]
        [] event.event_type = "scope_entry" ->
             [common |-> common, type |-> "scope_entry",
              fields |-> [scope_type |-> scope_type_tag(a.type), id |-> a.scope_id]]
        [] event.event_type = "scope_exit" ->
             [common |-> common, type |-> "scope_exit",
              fields |-> [id |-> a.scope_id]]

\* a path at which no file has been written
NoFile == [exists |-> FALSE, events |-> <<>>]

\* a variant whose loop starts at the second event
save_document_skips_first(e) ==
  [ exists |-> TRUE,
    events |-> [i \in 1..(Len(e.events) - 1) |-> render_event(e.events[i + 1])] ]

\* the document save() streams into its ofstream
save_document(e) ==
  [ exists |-> TRUE,
    events |-> [i \in 1..Len(e.events) |-> render_event(e.events[i])] ]

\* a variant that opens the file for appending: the document goes after what
\* the file already holds
save_append_mode(fs, e, filepath, io_ok) ==
  IF io_ok
  THEN [fs EXCEPT ![TraceFile] =
          [ exists |-> TRUE, events |-> @.events \o save_document(e).events ]]
  ELSE fs

\* save(filepath): the file system it leaves; io_ok is whether the ofstream
\* could be opened and written.  The path opened is the literal
\* "cats_trace.cats"; filepath is not read.
save(fs, e, filepath, io_ok) ==
  IF io_ok THEN [fs EXCEPT ![TraceFile] = save_document(e)] ELSE fs

----------------------------------------------------------------------------
(* Calls: what a thread asks of the engine *)

ResetCall == [op |-> "reset"]

AllocCall(call_id, buffer_name, address, size, di) ==
  [op |-> "alloc", call_id |-> call_id, buffer_name |-> buffer_name,
   address |-> address, size |-> size, di |-> di]

DeallocCall(call_id, address, di) ==
  [op |-> "dealloc", call_id |-> call_id, address |-> address, di |-> di]

AccessCall(call_id, address, is_write, di) ==
  [op |-> "access", call_id |-> call_id, address |-> address,
   is_write |-> is_write, di |-> di]

ScopeEntryCall(call_id, scope_id, type, di) ==
  [op |-> "scope_entry", call_id |-> call_id, scope_id |-> scope_id,
   type |-> type, di |-> di]

ScopeExitCall(call_id, scope_id, scope_type, di) ==
  [op |-> "scope_exit", call_id |-> call_id, scope_id |-> scope_id,
   scope_type |-> scope_type, di |-> di]

SaveCall(filepath, io_ok) == [op |-> "save", filepath |-> filepath, io_ok |-> io_ok]

NoCall == [op |-> "none"]

\* the entry points the instrumentation pass inserts
IsInstrumentation(c) ==
  c.op \in {"alloc", "dealloc", "access", "scope_entry", "scope_exit"}

\* the body of the member function a call names, run under the lock
Apply(e, c) ==
  CASE c.op = "reset" -> reset(e)
    [] c.op = "alloc" ->
         instrument_alloc(e, c.call_id, c.buffer_name, c.address, c.size, c.di)
    [] c.op = "dealloc" -> instrument_dealloc(e, c.call_id, c.address, c.di)
    [] c.op = "access" ->
         IF c.is_write THEN instrument_write(e, c.call_id, c.address, c.di)
                       ELSE instrument_read(e, c.call_id, c.address, c.di)
    [] c.op = "scope_entry" ->
         instrument_scope_entry(e, c.call_id, c.scope_id, c.type, c.di)
    [] c.op = "scope_exit" ->
         instrument_scope_exit(e, c.call_id, c.scope_id, c.scope_type, c.di)
    [] c.op = "save" -> e

ApplyFiles(fs, e, c) ==
  IF c.op = "save" THEN save(fs, e, c.filepath, c.io_ok) ELSE fs

----------------------------------------------------------------------------
(* Observations of a call, kept in the history variables *)

\* the call reaches already_recorded()
Queries(e, c) ==
  \/ c.op \in {"alloc", "dealloc", "access", "scope_entry"}
  \/ c.op = "scope_exit" /\ c.scope_id \in e.scope_ids

\* what call c did to engine e, leaving e2
Observation(e, c, e2) ==
  [ c        |-> c,
    queried  |-> Queries(e, c),
    \* the scope stack and the stored signature when already_recorded() ran
    stack    |-> IF c.op = "scope_entry" THEN Append(e.scope_stack, c.scope_id)
                 ELSE e.scope_stack,
    sig      |-> IF c.op = "scope_entry" THEN signature(e2) ELSE signature(e),
    \* judged a duplicate: the query left the dedup memory as it was
    dup      |-> Queries(e, c) /\ e2.recorded_calls = e.recorded_calls,
    first    |-> Len(e.events) + 1,
    appended |-> Len(e2.events) - Len(e.events),
    depth    |-> Len(e2.scope_stack) ]

\* an engine whose oracle has forgotten everything: its next query is new
ForgetCalls(e) == [e EXCEPT !.recorded_calls = EmptyMap]

Observe(c) ==
  LET e  == g_cats_trace
      e2 == Apply(g_cats_trace, c)
  IN  /\ last' = c
      /\ prev' = e
      /\ hist' = IF c.op = "reset" THEN <<>> ELSE Append(hist, Observation(e, c, e2))
      /\ after_reset' = (after_reset \/ c.op = "reset")
      /\ reset_from' = IF c.op = "reset" THEN e ELSE reset_from
      /\ fresh' = IF c.op = "reset" THEN CATS_Trace_built(e.strategy)
                 ELSE Apply(fresh, c)
      /\ nodedup' = Apply(ForgetCalls(nodedup), c)
      /\ freed' =
           CASE c.op = "reset" -> {}
             [] c.op = "dealloc" /\ c.address \in DOMAIN e.allocations
                                 /\ c.address \notin DOMAIN e2.allocations ->
                  freed \cup {c.address}
             [] c.op = "alloc" /\ c.address \in DOMAIN e2.allocations ->
                  freed \ {c.address}
             [] OTHER -> freed

----------------------------------------------------------------------------
(* Bounds and input sets *)

MaxCalls == 4        \* calls per run of Spec
MaxDepth == 2        \* scope entries are made below this stack depth
MaxResetCalls == 6   \* calls per run of SpecReset
MaxMemCalls == 4     \* calls per run of SpecMem
MaxConcCalls == 4    \* calls per run of SpecConc
MaxThreadCalls == 5  \* calls per run of SpecThreads
MaxTestCalls == 5    \* calls per run of SpecTest
MaxPassCalls == 10   \* calls per run of SpecPass
MaxLockCalls == 4    \* calls per run of SpecLockFair
MaxSaveCalls == 3    \* calls per run of SpecSave

CallIds == {1, 2}
ScopeIds == {0, 1, 2}
Addresses == {0, 1, 2, 3}

Here == [funcname |-> <<"f">>, filename |-> <<"a", ".", "c">>, line |-> 1, col |-> 0]

\* the debug info the pass attaches to a callsite: the source line differs
\* from callsite to callsite
At(call_id) == [Here EXCEPT !.line = call_id]

Paths == {TraceFile, "cats_trace_test.cats"}

\* 0: the initial thread, thread 0 of the OpenMP team; 1: the team's second
\* thread, which runs user code only inside a parallel region; 2: a thread
\* created outside OpenMP (its own initial thread)
Threads == {0, 1, 2}
Team == {0, 1}

----------------------------------------------------------------------------
(* The primary thread calls the engine; nobody else does, so lock_guard     *)
(* never blocks and each handler runs from entry to return in one step.     *)

Do(c) ==
  /\ budget' = budget - 1
  /\ g_cats_trace' = Apply(g_cats_trace, c)
  /\ files' = ApplyFiles(files, g_cats_trace, c)
  /\ Observe(c)
  /\ UNCHANGED <<mutex, pc, req, in_parallel, serial, solo, skipped>>

Reset ==
  /\ budget > 0
  /\ Do(ResetCall)

InstrumentAlloc(call_id, buffer_name, address, size, di) ==
  /\ budget > 0
  /\ Do(AllocCall(call_id, buffer_name, address, size, di))

InstrumentDealloc(call_id, address, di) ==
  /\ budget > 0
  /\ Do(DeallocCall(call_id, address, di))

InstrumentAccess(call_id, address, is_write, di) ==
  /\ budget > 0
  /\ Do(AccessCall(call_id, address, is_write, di))

InstrumentScopeEntry(call_id, scope_id, type, di) ==
  /\ budget > 0
  /\ Len(g_cats_trace.scope_stack) < MaxDepth
  /\ Do(ScopeEntryCall(call_id, scope_id, type, di))

InstrumentScopeExit(call_id, scope_id, scope_type, di) ==
  /\ budget > 0
  /\ Do(ScopeExitCall(call_id, scope_id, scope_type, di))

Save(filepath, io_ok) ==
  /\ budget > 0
  /\ Do(SaveCall(filepath, io_ok))

\* the state after the construction of g_cats_trace in a build with the given
\* strategy, with n calls to come
InitBuilt(n, strategy) ==
  /\ g_cats_trace = CATS_Trace_built(strategy)
  /\ files = [p \in Paths |-> NoFile]
  /\ mutex = {}
  /\ pc = [t \in Threads |-> "idle"]
  /\ req = [t \in Threads |-> NoCall]
  /\ in_parallel = FALSE
  /\ budget = n
  /\ last = NoCall
  /\ prev = CATS_Trace_built(strategy)
  /\ hist = <<>>
  /\ after_reset = FALSE
  /\ reset_from = CATS_Trace_built(strategy)
  /\ fresh = CATS_Trace_built(strategy)
  /\ nodedup = CATS_Trace_built(strategy)
  /\ freed = {}
  /\ serial = CATS_Trace_built(strategy)
  /\ solo = CATS_Trace_built(strategy)
  /\ skipped = 0

InitWith(n) == InitBuilt(n, CATS_STACK_IDENTIFIER_STRATEGY_VERY_FAST)

(* Spec: scopes, one allocation site sharing its callsite id with a scope   *)
(* callsite, and reset.                                                     *)
Init == InitWith(MaxCalls)

Next ==
  \/ Reset
  \/ InstrumentAlloc(1, <<"x">>, 1, 1, Here)
  \/ \E call_id \in CallIds, scope_id \in ScopeIds :
       InstrumentScopeEntry(call_id, scope_id, CATS_SCOPE_TYPE_LOOP, At(call_id))
  \/ \E call_id \in CallIds, scope_id \in ScopeIds :
       InstrumentScopeExit(call_id, scope_id, CATS_SCOPE_TYPE_LOOP, At(call_id))

Spec == Init /\ [][Next]_vars

(* SpecExact: the same calls on the engine of the build with the exact      *)
(* strategy, -DCATS_STACK_IDENTIFIER_STRATEGY=0.                            *)
InitExact == InitBuilt(MaxCalls, CATS_STACK_IDENTIFIER_STRATEGY_DEFAULT)

SpecExact == InitExact /\ [][Next]_vars

(* SpecReset: longer runs over fewer inputs: one allocation site, one scope *)
(* callsite, two scope ids, and reset.                                      *)
InitReset == InitWith(MaxResetCalls)

NextReset ==
  \/ Reset
  \/ InstrumentAlloc(1, <<"x">>, 1, 1, Here)
  \/ \E scope_id \in {1, 2} : InstrumentScopeEntry(2, scope_id, CATS_SCOPE_TYPE_LOOP, Here)
  \/ \E scope_id \in {1, 2} : InstrumentScopeExit(2, scope_id, CATS_SCOPE_TYPE_LOOP, Here)

SpecReset == InitReset /\ [][NextReset]_vars

(* SpecMem: the allocation table.  Callsite 1 allocates "x" (1 byte) and    *)
(* callsite 2 "y" (2 bytes), callsite 3 deallocates, callsite 4 reads and   *)
(* callsite 5 writes.                                                       *)
InitMem == InitWith(MaxMemCalls)

NextMem ==
  \/ \E address \in Addresses :
       \/ InstrumentAlloc(1, <<"x">>, address, 1, Here)
       \/ InstrumentAlloc(2, <<"y">>, address, 2, Here)
  \/ \E address \in Addresses : InstrumentDealloc(3, address, Here)
  \/ \E address \in Addresses :
       \/ InstrumentAccess(4, address, FALSE, Here)
       \/ InstrumentAccess(5, address, TRUE, Here)

SpecMem == InitMem /\ [][NextMem]_vars

(* SpecSave: names and scope types of every shape, and save().  Callsite 1  *)
(* allocates one byte at address 1, callsite 2 deallocates it, callsite 3   *)
(* reads and callsite 4 writes it, callsite 5 enters scope 1 and callsite 6 *)
(* leaves it.                                                               *)

\* a name of n characters c
Rep(c, n) == [i \in 1..n |-> c]

\* no debug info: null names, line and column 0
NoDebugInfo == [funcname |-> <<>>, filename |-> <<>>, line |-> 0, col |-> 0]

\* names that fill their arrays exactly (capacity - 1 characters)
FitsDebugInfo ==
  [ funcname |-> Rep("g", CATS_TRACE_FUNC_NAME_SIZE - 1),
    filename |-> Rep("h", CATS_TRACE_FILE_NAME_SIZE - 1), line |-> 2, col |-> 3 ]

\* names one character longer than that
LongDebugInfo ==
  [ funcname |-> Rep("g", CATS_TRACE_FUNC_NAME_SIZE) \o <<"!">>,
    filename |-> Rep("h", CATS_TRACE_FILE_NAME_SIZE) \o <<"!">>, line |-> 4, col |-> 5 ]

\* operator"" _a in c:\a.c
OddDebugInfo ==
  [ funcname |-> <<"o", "p", "\"", "\"", "_", "a">>,
    filename |-> <<"c", ":", "\\", "a", ".", "c">>, line |-> 6, col |-> 7 ]

\* (buffer name, debug info) of the allocation sites
AllocSites ==
  { <<(<<"x">>), Here>>,
    <<(<<>>), NoDebugInfo>>,
    <<Rep("b", CATS_TRACE_BUFFER_NAME_SIZE - 1), FitsDebugInfo>>,
    <<Rep("b", CATS_TRACE_BUFFER_NAME_SIZE) \o <<"!">>, LongDebugInfo>>,
    <<(<<"a", "\"", "b">>), OddDebugInfo>>,
    <<(<<"a", "\n", "b">>), Here>> }

\* scope_type is a uint8_t: the five enumerators and two other values
ScopeTypes ==
  { CATS_SCOPE_TYPE_FUNCTION, CATS_SCOPE_TYPE_LOOP, CATS_SCOPE_TYPE_CONDITIONAL,
    CATS_SCOPE_TYPE_PARALLEL, CATS_SCOPE_TYPE_UNSTRUCTURED,
    CATS_SCOPE_TYPE_UNSTRUCTURED + 1, 255 }

InitSave == InitWith(MaxSaveCalls)

NextSave ==
  \/ Reset
  \/ \E site \in AllocSites : InstrumentAlloc(1, site[1], 1, 1, site[2])
  \/ InstrumentDealloc(2, 1, Here)
  \/ InstrumentAccess(3, 1, FALSE, Here)
  \/ InstrumentAccess(4, 1, TRUE, LongDebugInfo)
  \/ \E type \in ScopeTypes : InstrumentScopeEntry(5, 1, type, OddDebugInfo)
  \/ InstrumentScopeExit(6, 1, CATS_SCOPE_TYPE_LOOP, Here)
  \/ \E filepath \in Paths, io_ok \in BOOLEAN : Save(filepath, io_ok)

SpecSave == InitSave /\ [][NextSave]_vars

----------------------------------------------------------------------------
(* Threads.  A call is three steps: the participation gate and the request  *)
(* for the lock (Invoke), the lock_guard constructor returning (Acquire),   *)
(* and the handler body up to its return, where lock_guard's destructor     *)
(* unlocks (Body).                                                          *)

omp_in_parallel(t) == t \in Team /\ in_parallel

omp_get_thread_num(t) == IF t = 1 THEN 1 ELSE 0

\* a variant with the thread test inverted
skip_call_inverted(t) == omp_in_parallel(t) /\ omp_get_thread_num(t) = 0

\* if (omp_in_parallel() && omp_get_thread_num() != 0) return;
skip_call(t) == omp_in_parallel(t) /\ omp_get_thread_num(t) # 0

\* a variant that does not wait for the mutex
lock_guard_no_wait(t) == TRUE

\* std::lock_guard<std::mutex> guard(this->_mutex) can return
lock_guard(t) == mutex = {}

\* the calls the threads make in SpecConc
ConcCalls ==
  { ResetCall,
    AllocCall(1, <<"x">>, 1, 1, Here),
    DeallocCall(2, 1, Here),
    AccessCall(3, 1, TRUE, Here),
    ScopeEntryCall(1, 1, CATS_SCOPE_TYPE_PARALLEL, Here),
    ScopeExitCall(2, 1, CATS_SCOPE_TYPE_PARALLEL, Here),
    SaveCall(TraceFile, TRUE) }

Invoke(t, c) ==
  /\ pc[t] = "idle"
  /\ t = 1 => in_parallel /\ IsInstrumentation(c)
  /\ budget > 0
  /\ budget' = budget - 1
  /\ IF IsInstrumentation(c) /\ skip_call(t)
     THEN /\ skipped' = skipped + 1
          /\ UNCHANGED <<pc, req>>
     ELSE /\ pc' = [pc EXCEPT ![t] = "waiting"]
          /\ req' = [req EXCEPT ![t] = c]
          /\ UNCHANGED skipped
  /\ UNCHANGED <<g_cats_trace, files, mutex, in_parallel, last, prev, hist,
                 after_reset, reset_from, fresh, nodedup, freed, serial, solo>>

Acquire(t) ==
  /\ pc[t] = "waiting"
  /\ lock_guard(t)
  /\ mutex' = mutex \cup {t}
  /\ pc' = [pc EXCEPT ![t] = "locked"]
  /\ serial' = Apply(serial, req[t])
  /\ UNCHANGED <<g_cats_trace, files, req, in_parallel, budget, last, prev, hist,
                 after_reset, reset_from, fresh, nodedup, freed, solo, skipped>>

\* a call body that unlocks by hand at its end only: a return that logs
\* nothing (duplicate verdict, exit of a scope that is not open, failed
\* lookup) leaves with the lock held
Body_keeps_lock_on_early_return(t) ==
  /\ pc[t] = "locked"
  /\ g_cats_trace' = Apply(g_cats_trace, req[t])
  /\ files' = ApplyFiles(files, g_cats_trace, req[t])
  /\ mutex' = IF /\ IsInstrumentation(req[t])
                 /\ Apply(g_cats_trace, req[t]).events = g_cats_trace.events
              THEN mutex ELSE mutex \ {t}
  /\ pc' = [pc EXCEPT ![t] = "idle"]
  /\ req' = [req EXCEPT ![t] = NoCall]
  /\ solo' = IF t = 1 /\ in_parallel /\ IsInstrumentation(req[t])
             THEN solo ELSE Apply(solo, req[t])
  /\ Observe(req[t])
  /\ UNCHANGED <<in_parallel, budget, serial, skipped>>

Body(t) ==
  /\ pc[t] = "locked"
  /\ g_cats_trace' = Apply(g_cats_trace, req[t])
  /\ files' = ApplyFiles(files, g_cats_trace, req[t])
  /\ mutex' = mutex \ {t}
  /\ pc' = [pc EXCEPT ![t] = "idle"]
  /\ req' = [req EXCEPT ![t] = NoCall]
  /\ solo' = IF t = 1 /\ in_parallel /\ IsInstrumentation(req[t])
             THEN solo ELSE Apply(solo, req[t])
  /\ Observe(req[t])
  /\ UNCHANGED <<in_parallel, budget, serial, skipped>>

\* thread 0 reaches "#pragma omp parallel": the team starts
ParallelBegin ==
  /\ ~in_parallel
  /\ pc[0] = "idle"
  /\ in_parallel' = TRUE
  /\ UNCHANGED <<g_cats_trace, files, mutex, pc, req, budget, last, prev, hist,
                 after_reset, reset_from, fresh, nodedup, freed, serial, solo,
                 skipped>>

\* the barrier at the end of the region: every team thread has left its calls
ParallelEnd ==
  /\ in_parallel
  /\ \A t \in Team : pc[t] = "idle"
  /\ in_parallel' = FALSE
  /\ UNCHANGED <<g_cats_trace, files, mutex, pc, req, budget, last, prev, hist,
                 after_reset, reset_from, fresh, nodedup, freed, serial, solo,
                 skipped>>

InitConc == InitWith(MaxConcCalls)

NextConc ==
  \/ \E t \in Threads, c \in ConcCalls : Invoke(t, c)
  \/ \E t \in Threads : Acquire(t)
  \/ \E t \in Threads : Body(t)
  \/ ParallelBegin
  \/ ParallelEnd

SpecConc == InitConc /\ [][NextConc]_vars

\* calls whose bodies take every return path: a failed lookup and, repeated,
\* a duplicate verdict (access), an exit of a scope that is not open, and an
\* exit that pops an inner scope before its own
LockCalls ==
  { AccessCall(3, 1, TRUE, Here),
    ScopeEntryCall(1, 1, CATS_SCOPE_TYPE_FUNCTION, Here),
    ScopeEntryCall(4, 2, CATS_SCOPE_TYPE_LOOP, Here),
    ScopeExitCall(2, 1, CATS_SCOPE_TYPE_FUNCTION, Here) }

InitLock == InitWith(MaxLockCalls)

NextLock ==
  \/ \E t \in Threads, c \in LockCalls : Invoke(t, c)
  \/ \E t \in Threads : Acquire(t)
  \/ \E t \in Threads : Body(t)
  \/ ParallelBegin
  \/ ParallelEnd

\* the program under fair scheduling: a thread that holds the lock runs its
\* call body to the end (straight-line code and one bounded loop), and a
\* thread blocked on the lock takes it once it stays free
SpecLockFair ==
  /\ InitLock
  /\ [][NextLock]_vars
  /\ \A t \in Threads : WF_vars(Acquire(t)) /\ WF_vars(Body(t))

(* SpecTest: the calls of the runtime test, in any order: callsite 1 enters *)
(* the function scope 0 and the loop scope 1, callsite 5 exits the loop and *)
(* frees the array, callsite 6 exits the function.                          *)

InitTest == InitWith(MaxTestCalls)

NextTest ==
  \/ InstrumentScopeEntry(1, 0, CATS_SCOPE_TYPE_FUNCTION, Here)
  \/ InstrumentAlloc(2, <<"x">>, 1, 1, Here)
  \/ InstrumentScopeEntry(1, 1, CATS_SCOPE_TYPE_LOOP, Here)
  \/ InstrumentScopeExit(5, 1, CATS_SCOPE_TYPE_LOOP, Here)
  \/ InstrumentDealloc(5, 1, Here)
  \/ InstrumentScopeExit(6, 0, CATS_SCOPE_TYPE_FUNCTION, Here)

SpecTest == InitTest /\ [][NextTest]_vars

(* SpecPass: an instrumented program.  Function f holds the loops l and m; *)
(* f is called again and again, and each call may run each loop any number   *)
(* of times.  The passes put one entry call and one exit call at each        *)
(* lexical scope, with the scope id and the callsite ids as constants.       *)

LexicalScopes == {"f", "l", "m"}

\* the lexical scope around each scope; main, outside the module's scopes
Enclosing == ("f" :> "main") @@ ("l" :> "f") @@ ("m" :> "f")

\* the ConstantInt scope id of each lexical scope: the counter's first value
\* for the function, a hash that is not 0 for each loop
PassScopeID == ("f" :> 0) @@ ("l" :> 1) @@ ("m" :> 2)

PassScopeType ==
  ("f" :> CATS_SCOPE_TYPE_FUNCTION) @@ ("l" :> CATS_SCOPE_TYPE_LOOP) @@
  ("m" :> CATS_SCOPE_TYPE_LOOP)

\* the ConstantInt callsite ids of the entry call and of the exit call
PassEntryCallID == ("f" :> 0) @@ ("l" :> 3) @@ ("m" :> 5)
PassExitCallID == ("f" :> 1) @@ ("l" :> 4) @@ ("m" :> 6)

\* the scope ids of the activations the program is in, innermost last, after
\* the calls of h
RECURSIVE ControlStack(_)
ControlStack(h) ==
  IF h = <<>> THEN <<>>
  ELSE LET c    == h[Len(h)].c
           rest == ControlStack(SubSeq(h, 1, Len(h) - 1))
       IN  IF c.op = "scope_entry" THEN Append(rest, c.scope_id)
           ELSE SubSeq(rest, 1, Len(rest) - 1)

\* control reaches the entry call of lexical scope x
EnterScope(x) ==
  LET at == ControlStack(hist)
  IN  /\ IF Enclosing[x] = "main" THEN at = <<>>
         ELSE at # <<>> /\ at[Len(at)] = PassScopeID[Enclosing[x]]
      /\ InstrumentScopeEntry(PassEntryCallID[x], PassScopeID[x], PassScopeType[x],
                              At(PassEntryCallID[x]))

\* control reaches the exit call of lexical scope x
LeaveScope(x) ==
  LET at == ControlStack(hist)
  IN  /\ at # <<>> /\ at[Len(at)] = PassScopeID[x]
      /\ InstrumentScopeExit(PassExitCallID[x], PassScopeID[x], PassScopeType[x],
                             At(PassExitCallID[x]))

InitPass == InitWith(MaxPassCalls)

NextPass ==
  \/ \E x \in LexicalScopes : EnterScope(x)
  \/ \E x \in LexicalScopes : LeaveScope(x)

SpecPass == InitPass /\ [][NextPass]_vars

(* SpecThreads: two threads outside any parallel region, the initial thread *)
(* and a thread created outside OpenMP.  Both pass the participation gate.  *)
(* Each enters and leaves its own scopes, well nested, every scope id once; *)
(* the callsite of the entry of scope id is id, that of its exit id + 10.   *)

\* the scope ids of each thread's scopes
ThreadScopes == (0 :> {1, 3}) @@ (2 :> {2})

\* the scopes thread t is in, innermost last, after the calls of h
RECURSIVE OwnStack(_, _)
OwnStack(h, t) ==
  IF h = <<>> THEN <<>>
  ELSE LET c    == h[Len(h)].c
           rest == OwnStack(SubSeq(h, 1, Len(h) - 1), t)
       IN  IF c.scope_id \notin ThreadScopes[t] THEN rest
           ELSE IF c.op = "scope_entry" THEN Append(rest, c.scope_id)
           ELSE SubSeq(rest, 1, Len(rest) - 1)

\* thread t reaches the entry of one of its scopes it has not been in, or the
\* exit of the scope it is in
ThreadCall(t, c) ==
  /\ c.scope_id \in ThreadScopes[t]
  /\ IF c.op = "scope_entry"
     THEN \A k \in DOMAIN hist : hist[k].c.scope_id # c.scope_id
     ELSE LET own == OwnStack(hist, t)
          IN  own # <<>> /\ own[Len(own)] = c.scope_id
  /\ Invoke(t, c)

ThreadCalls ==
  { ScopeEntryCall(id, id, CATS_SCOPE_TYPE_FUNCTION, At(id)) : id \in {1, 2, 3} } \cup
  { ScopeExitCall(id + 10, id, CATS_SCOPE_TYPE_FUNCTION, At(id + 10)) : id \in {1, 2, 3} }

InitThreads == InitWith(MaxThreadCalls)

NextThreads ==
  \/ \E t \in {0, 2}, c \in ThreadCalls : ThreadCall(t, c)
  \/ \E t \in {0, 2} : Acquire(t)
  \/ \E t \in {0, 2} : Body(t)

SpecThreads == InitThreads /\ [][NextThreads]_vars

----------------------------------------------------------------------------
(* Vocabulary of the properties *)

Front(q) == SubSeq(q, 1, Len(q) - 1)

LastOf(q) == q[Len(q)]

Events == g_cats_trace.events

\* positions in the log of the ScopeEntry / ScopeExit events of a scope id
EntryEvents(id) ==
  {i \in DOMAIN Events :
     Events[i].event_type = "scope_entry" /\ Events[i].args.scope_id = id}

ExitEvents(id) ==
  {i \in DOMAIN Events :
     Events[i].event_type = "scope_exit" /\ Events[i].args.scope_id = id}

IsEntry(o) == o.c.op = "scope_entry"

IsExit(o) == o.c.op = "scope_exit"

Bad == <<-1>>

\* The stack a strict LIFO discipline leaves after the calls of h; Bad when h
\* holds a call that is no scope entry or exit, enters an id a second time,
\* or exits an id that is not the innermost open one.
RECURSIVE LifoStack(_)
LifoStack(h) ==
  IF h = <<>> THEN <<>>
  ELSE
    LET s == LifoStack(Front(h))
        o == LastOf(h)
        earlier == {h[i].c.scope_id : i \in {k \in 1..(Len(h) - 1) : IsEntry(h[k])}}
    IN  IF s = Bad THEN Bad
        ELSE IF IsEntry(o)
             THEN IF o.c.scope_id \in earlier THEN Bad ELSE Append(s, o.c.scope_id)
        ELSE IF IsExit(o)
             THEN IF s # <<>> /\ LastOf(s) = o.c.scope_id THEN Front(s) ELSE Bad
        ELSE Bad

\* hist is a complete well-nested sequence of entries and exits, every scope
\* id entered once, made on an engine that was just constructed or reset
WellNestedRun == hist # <<>> /\ LifoStack(hist) = <<>>

\* an earlier call of the run used the same callsite id under a stack with the
\* same sum of ids (for an entry the entered id counts: it is already pushed)
SameSumEarlier(k) ==
  \E i \in 1..(k - 1) :
    /\ hist[i].c.call_id = hist[k].c.call_id
    /\ stack_sum(hist[i].stack) = stack_sum(hist[k].stack)

----------------------------------------------------------------------------
(* C1 *)

\* C1 (as claimed): after a complete well-nested run of scope entries and exits
\* with every scope id entered once, whatever the callsite ids, the scope stack
\* is empty and the log holds exactly one ScopeEntry and exactly one ScopeExit
\* event per scope id, the exit after the entry.
C1_PairsExactly ==
  WellNestedRun =>
    /\ g_cats_trace.scope_stack = <<>>
    /\ \A k \in DOMAIN hist :
         LET id == hist[k].c.scope_id
         IN  /\ Cardinality(EntryEvents(id)) = 1
             /\ Cardinality(ExitEvents(id)) = 1
             /\ \A i \in EntryEvents(id), j \in ExitEvents(id) : i < j

\* C1 (amended): after such a run the scope stack and the Open set are empty,
\* and every entry (exit) call left exactly one ScopeEntry (ScopeExit) event
\* for its scope id, unless an earlier call of the run used the same callsite
\* id under a stack with the same sum of ids, in which case it left none; a
\* ScopeExit comes after the ScopeEntry of its id when both are in the log.
C1_PairsUnlessDuplicate ==
  WellNestedRun =>
    /\ g_cats_trace.scope_stack = <<>>
    /\ g_cats_trace.scope_ids = {}
    /\ \A k \in DOMAIN hist :
         LET id == hist[k].c.scope_id
             n  == IF SameSumEarlier(k) THEN 0 ELSE 1
         IN  /\ IsEntry(hist[k]) => Cardinality(EntryEvents(id)) = n
             /\ IsExit(hist[k]) => Cardinality(ExitEvents(id)) = n
             /\ \A i \in EntryEvents(id), j \in ExitEvents(id) : i < j

\* a complete run of two nested scopes in which one call was suppressed and
\* both kinds of event are in the log
C1_Witness ==
  /\ WellNestedRun
  /\ Len(hist) = 4
  /\ IsEntry(hist[1]) /\ IsEntry(hist[2])
  /\ \E k \in DOMAIN hist : SameSumEarlier(k)
  /\ \E i, j \in DOMAIN Events :
       Events[i].event_type = "scope_entry" /\ Events[j].event_type = "scope_exit"

----------------------------------------------------------------------------
(* C2 *)

\* the last three calls were entry(A) on an empty stack, entry(B), exit(A),
\* with A # B and none of them judged a duplicate
SkippedExitRun ==
  /\ Len(hist) >= 3
  /\ LET n == Len(hist)
         a == hist[n - 2]
         b == hist[n - 1]
         x == hist[n]
     IN  /\ IsEntry(a) /\ IsEntry(b) /\ IsExit(x)
         /\ a.stack = <<a.c.scope_id>>
         /\ b.c.scope_id # a.c.scope_id
         /\ x.c.scope_id = a.c.scope_id
         /\ ~a.dup /\ ~b.dup /\ ~x.dup

\* the events the last call appended
LastAppended ==
  LET x == LastOf(hist)
  IN  SubSeq(Events, x.first, x.first + x.appended - 1)

\* C2 (as claimed): entry(A), entry(B), exit(A) from an empty stack logs an
\* inferred ScopeExit for B before the real ScopeExit for A and leaves the
\* stack empty.
C2_InferredBeforeReal ==
  SkippedExitRun =>
    LET n == Len(hist)
        A == hist[n - 2].c.scope_id
        B == hist[n - 1].c.scope_id
    IN  /\ g_cats_trace.scope_stack = <<>>
        /\ \E i, j \in DOMAIN LastAppended :
             /\ i < j
             /\ LastAppended[i].event_type = "scope_exit"
             /\ LastAppended[i].args.scope_id = B
             /\ LastAppended[j].event_type = "scope_exit"
             /\ LastAppended[j].args.scope_id = A

\* C2 (amended): entry(A), entry(B), exit(A) from an empty stack appends the
\* real ScopeExit for A and then, after it, one inferred ScopeExit for B (both
\* with the exit call's debug location), and leaves the stack and the Open set
\* empty.
C2_InferredAfterReal ==
  SkippedExitRun =>
    LET n == Len(hist)
        A == hist[n - 2].c.scope_id
        B == hist[n - 1].c.scope_id
    IN  /\ g_cats_trace.scope_stack = <<>>
        /\ g_cats_trace.scope_ids = {}
        /\ Len(LastAppended) = 2
        /\ LastAppended[1].event_type = "scope_exit"
        /\ LastAppended[1].args.scope_id = A
        /\ LastAppended[2].event_type = "scope_exit"
        /\ LastAppended[2].args.scope_id = B
        /\ LastAppended[1].debug_info = LastAppended[2].debug_info

C2_Witness == SkippedExitRun /\ Len(Events) = 4

----------------------------------------------------------------------------
(* C3 *)

\* C3: of the calls of one entry point with one callsite id made while the
\* scope stack holds the same sequence of ids (no reset in between), only one
\* appends to the log: the event is recorded once, not once per call.
C3_RecordedOnce ==
  \A j \in DOMAIN hist : \A i \in 1..(j - 1) :
    ( /\ IsInstrumentation(hist[i].c) /\ IsInstrumentation(hist[j].c)
      /\ hist[i].c.op = hist[j].c.op
      /\ hist[i].c.call_id = hist[j].c.call_id
      /\ hist[i].stack = hist[j].stack )
    => ~(hist[i].appended > 0 /\ hist[j].appended > 0)

----------------------------------------------------------------------------
(* C4 *)

NoRepeatedId(stack) ==
  \A i, j \in DOMAIN stack : i # j => stack[i] # stack[j]

\* C4 (as claimed): a call whose callsite id was used before, but only under
\* scope stacks with a different sequence of ids, is recorded (not judged a
\* duplicate), for stacks that hold no id twice.
C4_DistinctStacksRecorded ==
  \A j \in DOMAIN hist :
    ( /\ hist[j].queried
      /\ NoRepeatedId(hist[j].stack)
      /\ \A i \in 1..(j - 1) :
           (hist[i].queried /\ hist[i].c.call_id = hist[j].c.call_id)
             => (hist[i].stack # hist[j].stack /\ NoRepeatedId(hist[i].stack)) )
    => ~hist[j].dup

\* C4 (amended): a call is judged a duplicate exactly when its callsite id was
\* queried before (since the last reset) under the same stored signature
\* stack_id; the signature a scope entry or exit is judged under is the plain
\* sum of the ids on the stack, so stacks with different id sequences and equal
\* sums ([0,1] and [1], [1,2] and [3], [] and [0]) share it and the later call
\* is suppressed.
C4_RecordedIffSumDiffers ==
  \A j \in DOMAIN hist :
    hist[j].queried =>
      /\ hist[j].dup <=>
           \E i \in 1..(j - 1) :
             /\ hist[i].queried
             /\ hist[i].c.call_id = hist[j].c.call_id
             /\ hist[i].sig = hist[j].sig
      /\ (IsEntry(hist[j]) \/ IsExit(hist[j])) =>
           hist[j].sig = stack_sum(hist[j].stack)

\* one callsite under two stacks with different sequences and the same sum,
\* the second call suppressed; and under two stacks with different sums, both
\* recorded
C4_Witness ==
  /\ \E j \in DOMAIN hist : \E i \in 1..(j - 1) :
       /\ hist[i].queried /\ hist[j].queried
       /\ hist[i].c.call_id = hist[j].c.call_id
       /\ hist[i].stack # hist[j].stack
       /\ NoRepeatedId(hist[i].stack) /\ NoRepeatedId(hist[j].stack)
       /\ hist[i].sig = hist[j].sig
       /\ hist[j].dup
  /\ \E j \in DOMAIN hist : \E i \in 1..(j - 1) :
       /\ hist[i].queried /\ hist[j].queried
       /\ hist[i].c.call_id = hist[j].c.call_id
       /\ hist[i].sig # hist[j].sig
       /\ ~hist[i].dup /\ ~hist[j].dup
       /\ hist[i].appended = 1 /\ hist[j].appended = 1

----------------------------------------------------------------------------
(* C5 *)

\* C5: the scope stack and the Open set are those of an engine with
\* deduplication disabled that was fed the same calls.
C5_StackIgnoresVerdicts ==
  /\ g_cats_trace.scope_stack = nodedup.scope_stack
  /\ g_cats_trace.scope_ids = nodedup.scope_ids

\* an exit judged a duplicate has popped its scope and a scope above it; before
\* it an entry judged a duplicate pushed its id
C5_Witness ==
  /\ hist # <<>>
  /\ IsExit(LastOf(hist))
  /\ LastOf(hist).dup
  /\ LastOf(hist).appended = 0
  /\ Len(prev.scope_stack) - Len(g_cats_trace.scope_stack) = 2
  /\ \E k \in DOMAIN hist :
       IsEntry(hist[k]) /\ hist[k].dup /\ hist[k].depth = Len(hist[k].stack)

----------------------------------------------------------------------------
(* C8 *)

\* C8: reset() leaves the log, the allocation table, the scope stack, the Open
\* set and the dedup memory empty, and the calls made after it produce the log
\* they produce on a freshly constructed engine.
C8_ResetReplays ==
  after_reset =>
    /\ hist = <<>> =>
         /\ g_cats_trace.events = <<>>
         /\ g_cats_trace.allocations = EmptyMap
         /\ g_cats_trace.scope_stack = <<>>
         /\ g_cats_trace.scope_ids = {}
         /\ g_cats_trace.recorded_calls = EmptyMap
    /\ g_cats_trace.events = fresh.events

----------------------------------------------------------------------------
(* C6 *)

\* the thread is inside a parallel region and is not thread 0 of its team
Secondary(t) == t = 1 /\ in_parallel

\* C6: a thread that is inside a parallel region and is not thread 0 never
\* waits for or holds the engine lock, and the engine is the one the calls of
\* the other threads alone produce.
C6_SecondaryInert ==
  /\ \A t \in Threads : Secondary(t) => (pc[t] = "idle" /\ t \notin mutex)
  /\ mutex = {} => g_cats_trace = solo

\* calls of the secondary thread have returned at the gate while the primary
\* thread is inside a call and the log is not empty
C6_Witness ==
  /\ in_parallel
  /\ skipped >= 2
  /\ pc[0] = "locked"
  /\ g_cats_trace.events # <<>>

----------------------------------------------------------------------------
(* C7 *)

\* C7: at most one thread is inside an operation body, and whenever no
\* operation is in progress the engine equals the one produced by running the
\* calls one after another in the order in which they took the lock.
C7_Serialized ==
  /\ Cardinality(mutex) <= 1
  /\ \A t \in Threads : pc[t] = "locked" <=> t \in mutex
  /\ mutex = {} => g_cats_trace = serial

\* calls have run and changed the log, and now one thread holds the lock
\* while another waits for it
C7_Witness ==
  /\ \E t, u \in Threads : t # u /\ pc[t] = "locked" /\ pc[u] = "waiting"
  /\ Len(g_cats_trace.events) >= 2

----------------------------------------------------------------------------
(* C9 *)

\* the record with the greatest base not above the address, when the address
\* is not above its base + size
Covers(allocations, address) ==
  LET bases == {b \in DOMAIN allocations : b <= address}
  IN  bases # {} /\ address <= Max(bases) + allocations[Max(bases)].size

CoveringRecord(allocations, address) ==
  allocations[Max({b \in DOMAIN allocations : b <= address})]

\* C9: an access call whose (callsite, signature) pair is new appends an Access
\* event if and only if the record with the greatest base <= address has
\* address <= base + size; the event carries that record's name and id and the
\* call's mode.
C9_AccessResolves ==
  (hist # <<>> /\ last.op = "access" /\ ~LastOf(hist).dup) =>
    LET hit == Covers(prev.allocations, last.address)
    IN  /\ LastOf(hist).appended = (IF hit THEN 1 ELSE 0)
        /\ hit =>
             LET r  == CoveringRecord(prev.allocations, last.address)
                 ev == LastOf(Events)
             IN  /\ ev.event_type = "access"
                 /\ ev.args.buffer_name = r.buffer_name
                 /\ ev.args.buffer_id = r.buffer_id
                 /\ ev.args.is_write = last.is_write

----------------------------------------------------------------------------
(* C10 *)

\* the last call was an access to an address whose record a deallocation
\* removed, with no allocation registered there since
AccessAfterDealloc ==
  hist # <<>> /\ last.op = "access" /\ last.address \in freed

\* C10 (as claimed): such an access appends no event, whatever other records
\* are live.
C10_NoEventAfterDealloc == AccessAfterDealloc => LastOf(hist).appended = 0

\* C10 (amended): such an access appends an event only if a record is live
\* below the address whose base + size is not below the address; the event
\* then carries the name and id of the nearest such record, never those of
\* the removed one.  With no such record it appends nothing.
C10_OnlyNeighbourAfterDealloc ==
  AccessAfterDealloc =>
    /\ last.address \notin DOMAIN prev.allocations
    /\ LastOf(hist).appended \in {0, 1}
    /\ LastOf(hist).appended = 1 =>
         LET below == {b \in DOMAIN prev.allocations : b < last.address}
             ev    == LastOf(Events)
         IN  /\ below # {}
             /\ last.address <= Max(below) + prev.allocations[Max(below)].size
             /\ ev.event_type = "access"
             /\ ev.args.buffer_name = prev.allocations[Max(below)].buffer_name
             /\ ev.args.buffer_id = Max(below)
             /\ ev.args.buffer_id # last.address

\* after alloc, alloc next to it, dealloc of the second: the access to the
\* freed address is logged against the first record
C10_Witness ==
  /\ AccessAfterDealloc
  /\ LastOf(hist).appended = 1
  /\ prev.allocations # EmptyMap

----------------------------------------------------------------------------
(* C11 *)

\* C11: after every instrument_alloc(call_id, buffer_name, address, size) call
\* of a participating thread the allocation table holds a record at address
\* with that name and size, also when the call was judged a duplicate and
\* logged no Allocation event.
C11_AllocRegisters ==
  (hist # <<>> /\ last.op = "alloc") =>
    /\ last.address \in DOMAIN g_cats_trace.allocations
    /\ g_cats_trace.allocations[last.address].buffer_name = last.buffer_name
    /\ g_cats_trace.allocations[last.address].size = last.size

----------------------------------------------------------------------------
(* C12 *)

\* C12: after every instrument_dealloc(call_id, address) call of a
\* participating thread the allocation table holds no record at address; the
\* call appends a Deallocation event, carrying the removed record's name and
\* id, only if a record was held at exactly that address.
C12_DeallocUnregisters ==
  (hist # <<>> /\ last.op = "dealloc") =>
    /\ last.address \notin DOMAIN g_cats_trace.allocations
    /\ LastOf(hist).appended \in {0, 1}
    /\ LastOf(hist).appended = 1 =>
         /\ last.address \in DOMAIN prev.allocations
         /\ LastOf(Events).event_type = "deallocation"
         /\ LastOf(Events).args.buffer_name =
              prev.allocations[last.address].buffer_name
         /\ LastOf(Events).args.buffer_id =
              prev.allocations[last.address].buffer_id

----------------------------------------------------------------------------
(* C13 *)

\* C13: instrument_scope_exit for a scope id that is not in the set of open
\* scopes changes nothing: the event log, the scope stack, the set of open
\* scopes, the dedup memory, the running signature and the allocation table
\* are as before the call.  Hence a second exit of the same id right after a
\* first one (from the same or another callsite) leaves the engine as the
\* first one left it.
C13_ExitNotOpenNoOp ==
  /\ (hist # <<>> /\ last.op = "scope_exit" /\ last.scope_id \notin prev.scope_ids) =>
       /\ g_cats_trace.events = prev.events
       /\ g_cats_trace.scope_stack = prev.scope_stack
       /\ g_cats_trace.scope_ids = prev.scope_ids
       /\ g_cats_trace.recorded_calls = prev.recorded_calls
       /\ g_cats_trace.stack_id = prev.stack_id
       /\ g_cats_trace.allocations = prev.allocations
  /\ \A scope_id \in ScopeIds, c1 \in CallIds, c2 \in CallIds :
       LET once == Apply(g_cats_trace,
                         ScopeExitCall(c1, scope_id, CATS_SCOPE_TYPE_LOOP, Here))
       IN  Apply(once, ScopeExitCall(c2, scope_id, CATS_SCOPE_TYPE_LOOP, Here)) = once

\* a scope was exited, logging its ScopeExit, and is exited again from another
\* callsite while an outer scope is still open
C13_Witness ==
  /\ hist # <<>>
  /\ last.op = "scope_exit"
  /\ last.scope_id \notin prev.scope_ids
  /\ prev.scope_stack # <<>>
  /\ \E i \in 1..(Len(hist) - 1) :
       /\ IsExit(hist[i])
       /\ hist[i].c.scope_id = last.scope_id
       /\ hist[i].c.call_id # last.call_id
       /\ hist[i].appended > 0

----------------------------------------------------------------------------
(* C14 *)

\* some record of the table has base <= address <= base + size
SomeRecordContains(allocations, address) ==
  \E b \in DOMAIN allocations : b <= address /\ address <= b + allocations[b].size

\* the call refers to an address with no live record: a dealloc of an address
\* that is no base of the table, an access to an address no record contains
MissingAllocation(e, c) ==
  \/ c.op = "dealloc" /\ c.address \notin DOMAIN e.allocations
  \/ c.op = "access" /\ ~SomeRecordContains(e.allocations, c.address)

\* C14: instrument_dealloc of an address with no record at exactly that
\* address, and instrument_access of an address that no record contains,
\* append no event and leave the event log, the allocation table, the scope
\* stack and the set of open scopes unchanged.
C14_MissingAllocationDropped ==
  (hist # <<>> /\ MissingAllocation(prev, last)) =>
    /\ LastOf(hist).appended = 0
    /\ g_cats_trace.events = prev.events
    /\ g_cats_trace.allocations = prev.allocations
    /\ g_cats_trace.scope_stack = prev.scope_stack
    /\ g_cats_trace.scope_ids = prev.scope_ids

\* with a record in the table, a dealloc and then an access each reached the
\* lookup (neither was judged a duplicate) and found no record
C14_Witness ==
  /\ hist # <<>>
  /\ last.op = "access"
  /\ MissingAllocation(prev, last)
  /\ ~LastOf(hist).dup
  /\ prev.allocations # EmptyMap
  /\ \E i \in 1..(Len(hist) - 1) :
       hist[i].c.op = "dealloc" /\ ~hist[i].dup /\ hist[i].appended = 0

----------------------------------------------------------------------------
(* C15 *)

\* the number of events the calls of h appended
RECURSIVE AppendedBy(_)
AppendedBy(h) == IF h = <<>> THEN 0 ELSE LastOf(h).appended + AppendedBy(Front(h))

\* the last call was a save() whose stream could be written
Saved == hist # <<>> /\ last.op = "save" /\ last.io_ok

\* the document the last save() wrote
Document == files[TraceFile]

\* the characters of a written name between its two double quotes
Unquoted(token) == SubSeq(token, 2, Len(token) - 1)

\* a written name is a double quote, the characters of name, a double quote
Writes(token, name) ==
  /\ Len(token) = Len(name) + 2
  /\ token[1] = "\"" /\ token[Len(token)] = "\""
  /\ Unquoted(token) = name

\* the "type" a call's own events are written with
TypeOf(c) ==
  CASE c.op = "alloc" -> "allocation"
    [] c.op = "dealloc" -> "deallocation"
    [] c.op = "access" -> "access"
    [] c.op = "scope_entry" -> "scope_entry"
    [] c.op = "scope_exit" -> "scope_exit"
    [] OTHER -> "none"

\* C15: after the calls since the last reset appended N events, the document
\* a save() writes has exactly N elements; the elements of the events a call
\* appended stand at the positions at which it appended them, and each element
\* holds the function, file, line, column and kind-specific fields stored in
\* the event at its position.
C15_SaveRendersLog ==
  Saved =>
    LET doc == Document.events
        N   == AppendedBy(hist)
    IN  /\ Document.exists
        /\ Len(doc) = N
        /\ N = Len(Events)
        /\ \A k \in DOMAIN hist :
             \A i \in hist[k].first..(hist[k].first + hist[k].appended - 1) :
               doc[i].type = TypeOf(hist[k].c)
        /\ \A i \in 1..N :
             LET ev == Events[i]
                 el == doc[i]
             IN  /\ Writes(el.common.funcname, ev.debug_info.funcname)
                 /\ Writes(el.common.filename, ev.debug_info.filename)
                 /\ el.common.line = ev.debug_info.line
                 /\ el.common.col = ev.debug_info.col
                 /\ el.type \in {"allocation", "deallocation", "access"} =>
                      /\ Writes(el.fields.buffer_name, ev.args.buffer_name)
                      /\ el.fields.buffer_id = ev.args.buffer_id
                 /\ el.type = "allocation" => el.fields.size = ev.args.size
                 /\ el.type = "access" =>
                      el.fields.mode = (IF ev.args.is_write THEN "w" ELSE "r")
                 /\ el.type \in {"scope_entry", "scope_exit"} =>
                      el.fields.id = ev.args.scope_id

\* a save() of a log of two events of different kinds
C15_Witness ==
  /\ Saved
  /\ Len(Events) >= 2
  /\ Events[1].event_type # Events[2].event_type
  /\ Len(Document.events) = 2

----------------------------------------------------------------------------
(* C16 *)

\* C16: after save(filepath) has written its stream, the document with the
\* logged events exists at filepath, the path the caller passed.
C16_SavedAtGivenPath ==
  Saved =>
    /\ files[last.filepath].exists
    /\ Len(files[last.filepath].events) = Len(Events)

----------------------------------------------------------------------------
(* C17 *)

\* C17: the event log is append-only between resets: a step of any operation
\* other than reset() leaves the events already logged in place (the log
\* before is a prefix of the log after), and a step of reset() leaves the log
\* empty.
C17_AppendOnly ==
  [][ /\ last'.op # "reset" =>
           /\ Len(g_cats_trace'.events) >= Len(g_cats_trace.events)
           /\ SubSeq(g_cats_trace'.events, 1, Len(g_cats_trace.events))
                = g_cats_trace.events
      /\ last'.op = "reset" => g_cats_trace'.events = <<>> ]_vars

\* a reset() emptied a log that held events, and a call after it appended
C17_Witness ==
  /\ after_reset
  /\ Len(reset_from.events) >= 1
  /\ hist # <<>>
  /\ LastOf(hist).appended >= 1
  /\ Len(Events) = Len(prev.events) + 1

----------------------------------------------------------------------------
(* C18 *)

\* the positions of the ScopeEntry elements of the document
ScopeEntryElements ==
  {i \in DOMAIN Document.events : Document.events[i].type = "scope_entry"}

\* C18 (as claimed): every ScopeEntry element save() writes carries a tag of
\* {func, loop, cond, para, unst}, whatever scope_type value the entry call
\* passed and the event stores.
C18_TagInClosedSet ==
  Saved =>
    \A i \in ScopeEntryElements :
      Document.events[i].fields.scope_type \in {"func", "loop", "cond", "para", "unst"}

\* C18 (amended): a ScopeEntry element carries func, loop, cond, para or unst
\* when the stored scope_type is the enumerator function, loop, conditional,
\* parallel or unstructured, and n/a for every other stored value.
C18_TagOfStoredType ==
  Saved =>
    \A i \in ScopeEntryElements :
      LET type == Events[i].args.type
          tag  == Document.events[i].fields.scope_type
      IN  /\ type = CATS_SCOPE_TYPE_FUNCTION => tag = "func"
          /\ type = CATS_SCOPE_TYPE_LOOP => tag = "loop"
          /\ type = CATS_SCOPE_TYPE_CONDITIONAL => tag = "cond"
          /\ type = CATS_SCOPE_TYPE_PARALLEL => tag = "para"
          /\ type = CATS_SCOPE_TYPE_UNSTRUCTURED => tag = "unst"
          /\ type \notin { CATS_SCOPE_TYPE_FUNCTION, CATS_SCOPE_TYPE_LOOP,
                           CATS_SCOPE_TYPE_CONDITIONAL, CATS_SCOPE_TYPE_PARALLEL,
                           CATS_SCOPE_TYPE_UNSTRUCTURED } => tag = "n/a"

\* a saved document with the entry of a scope whose type is no enumerator
C18_Witness ==
  /\ Saved
  /\ \E i \in ScopeEntryElements :
       /\ Events[i].args.type = 255
       /\ Document.events[i].fields.scope_type = "n/a"

----------------------------------------------------------------------------
(* C19 *)

\* what a reader of the document gets for a token that is no string
Malformed == <<"malformed">>

\* characters a string may hold only escaped
ControlChars == {"\n", "\r", "\t"}

\* A reader of the document's grammar at position i of a string token, acc
\* being the characters read so far: an unescaped double quote ends the
\* string and must be the token's last character, a backslash starts a
\* two-character escape, a raw control character is not allowed.
RECURSIVE ReadChars(_, _, _)
ReadChars(s, i, acc) ==
  IF i > Len(s) THEN Malformed
  ELSE IF s[i] = "\"" THEN (IF i = Len(s) THEN acc ELSE Malformed)
  ELSE IF s[i] = "\\"
       THEN IF i + 1 > Len(s) THEN Malformed
            ELSE IF s[i + 1] \in {"\"", "\\", "/"}
                 THEN ReadChars(s, i + 2, Append(acc, s[i + 1]))
            ELSE IF s[i + 1] = "n" THEN ReadChars(s, i + 2, Append(acc, "\n"))
            ELSE IF s[i + 1] = "r" THEN ReadChars(s, i + 2, Append(acc, "\r"))
            ELSE IF s[i + 1] = "t" THEN ReadChars(s, i + 2, Append(acc, "\t"))
            ELSE Malformed
  ELSE IF s[i] \in ControlChars THEN Malformed
  ELSE ReadChars(s, i + 1, Append(acc, s[i]))

\* A token without a backslash holds no escape: it is a string when it is a
\* double quote, characters that are neither double quotes nor control
\* characters, and a double quote, and then reads as those characters.
ReadString(token) ==
  IF Len(token) < 2 \/ token[1] # "\"" THEN Malformed
  ELSE IF \E i \in DOMAIN token : token[i] = "\\" THEN ReadChars(token, 2, <<>>)
  ELSE IF /\ token[Len(token)] = "\""
          /\ \A i \in 2..(Len(token) - 1) : token[i] \notin ControlChars \cup {"\""}
       THEN Unquoted(token)
       ELSE Malformed

\* C19: save() escapes double quotes, backslashes and control characters in
\* function, file and buffer names: every name of the written document is a
\* well-formed string that reads back as the name the event stores.
C19_NamesEscaped ==
  Saved =>
    \A i \in DOMAIN Document.events :
      LET ev == Events[i]
          el == Document.events[i]
      IN  /\ ReadString(el.common.funcname) = ev.debug_info.funcname
          /\ ReadString(el.common.filename) = ev.debug_info.filename
          /\ el.type \in {"allocation", "deallocation", "access"} =>
               ReadString(el.fields.buffer_name) = ev.args.buffer_name

\* the same, for the events whose names hold none of these characters
C19_PlainNamesReadBack ==
  Saved =>
    \A i \in DOMAIN Document.events :
      LET ev == Events[i]
          el == Document.events[i]
          Plain(name) == \A k \in DOMAIN name :
                           name[k] \notin ControlChars \cup {"\"", "\\"}
      IN  /\ Plain(ev.debug_info.funcname) =>
               ReadString(el.common.funcname) = ev.debug_info.funcname
          /\ Plain(ev.debug_info.filename) =>
               ReadString(el.common.filename) = ev.debug_info.filename
          /\ (el.type \in {"allocation", "deallocation", "access"}
                /\ Plain(ev.args.buffer_name)) =>
               ReadString(el.fields.buffer_name) = ev.args.buffer_name

----------------------------------------------------------------------------
(* C20 *)

\* stored is what an array of capacity bytes holds of the non-empty name
\* given: its leading capacity - 1 characters when it has capacity characters
\* or more, all of it otherwise
StoredOf(stored, given, capacity) ==
  IF Len(given) >= capacity
  THEN /\ Len(stored) = capacity - 1
       /\ \A i \in 1..(capacity - 1) : stored[i] = given[i]
  ELSE stored = given

\* the call c with one-character names in place of its names
WithShortNames(c) ==
  IF c.op = "alloc"
  THEN [c EXCEPT !.di = Here, !.buffer_name = <<"x">>]
  ELSE [c EXCEPT !.di = Here]

\* C20: a call whose function, file or buffer name is longer than its array
\* (64, 256 and 64 bytes, terminator included) is not rejected: it appends
\* the events the same call with short names appends, and these hold the
\* leading capacity - 1 characters of the long names; a non-empty name that
\* fits is stored unchanged; the allocation table and the Allocation event
\* hold the same buffer name.
C20_NamesTruncated ==
  (hist # <<>> /\ IsInstrumentation(last)) =>
    LET o == LastOf(hist)
    IN  /\ Len(Events) = Len(Apply(prev, WithShortNames(last)).events)
        /\ \A i \in o.first..(o.first + o.appended - 1) :
             LET ev == Events[i]
             IN  /\ last.di.funcname # <<>> =>
                      StoredOf(ev.debug_info.funcname, last.di.funcname,
                               CATS_TRACE_FUNC_NAME_SIZE)
                 /\ last.di.filename # <<>> =>
                      StoredOf(ev.debug_info.filename, last.di.filename,
                               CATS_TRACE_FILE_NAME_SIZE)
                 /\ last.op = "alloc" =>
                      /\ last.buffer_name # <<>> =>
                           StoredOf(ev.args.buffer_name, last.buffer_name,
                                    CATS_TRACE_BUFFER_NAME_SIZE)
                      /\ last.address \in DOMAIN g_cats_trace.allocations
                      /\ g_cats_trace.allocations[last.address].buffer_name
                           = ev.args.buffer_name

\* an allocation whose three names are all longer than their arrays was
\* logged with each of them cut
C20_Witness ==
  /\ hist # <<>>
  /\ last.op = "alloc"
  /\ LastOf(hist).appended = 1
  /\ Len(last.buffer_name) > CATS_TRACE_BUFFER_NAME_SIZE
  /\ Len(LastOf(Events).args.buffer_name) = CATS_TRACE_BUFFER_NAME_SIZE - 1
  /\ Len(last.di.funcname) > CATS_TRACE_FUNC_NAME_SIZE
  /\ Len(LastOf(Events).debug_info.funcname) = CATS_TRACE_FUNC_NAME_SIZE - 1
  /\ Len(last.di.filename) > CATS_TRACE_FILE_NAME_SIZE
  /\ Len(LastOf(Events).debug_info.filename) = CATS_TRACE_FILE_NAME_SIZE - 1

----------------------------------------------------------------------------
(* C21 *)

\* the last call was an instrument_scope_exit of an id in the set of open
\* scopes
ExitOfOpen ==
  hist # <<>> /\ last.op = "scope_exit" /\ last.scope_id \in prev.scope_ids

\* the positions of an id on a stack
Occurrences(stack, id) == {i \in DOMAIN stack : stack[i] = id}

C21_WitnessDup ==
  /\ ExitOfOpen
  /\ LastOf(hist).dup
  /\ Len(prev.scope_stack) = 2
  /\ prev.scope_stack[2] # last.scope_id

----------------------------------------------------------------------------
(* C22 *)

\* C22: after instrument_scope_exit(id) for an open id the scope stack is the
\* part of the old stack strictly below the topmost occurrence of id, in the
\* old order, and neither id nor any id that was above it is in the set of
\* open scopes.
C22_ExitPopsThroughId ==
  ExitOfOpen =>
    LET stack == prev.scope_stack
        occ   == Occurrences(stack, last.scope_id)
    IN  /\ occ # {}
        /\ g_cats_trace.scope_stack = SubSeq(stack, 1, Max(occ) - 1)
        /\ \A i \in Max(occ)..Len(stack) : stack[i] \notin g_cats_trace.scope_ids

\* the exit of the lower of two open scopes
C22_Witness ==
  /\ ExitOfOpen
  /\ Len(prev.scope_stack) = 2
  /\ prev.scope_stack[1] = last.scope_id
  /\ prev.scope_stack[2] # last.scope_id
  /\ g_cats_trace.scope_stack = <<>>

\* the exit of the upper of two open scopes, which leaves the lower one
C22_WitnessBelow ==
  /\ ExitOfOpen
  /\ Len(prev.scope_stack) = 2
  /\ prev.scope_stack[2] = last.scope_id
  /\ prev.scope_stack[1] # last.scope_id
  /\ g_cats_trace.scope_stack = <<prev.scope_stack[1]>>

----------------------------------------------------------------------------
(* C23 *)

\* the ids that occur on a stack
OnStack(stack) == {stack[i] : i \in DOMAIN stack}

\* C23: in every reachable state a scope id is in the set of open scopes
\* exactly when it occurs on the scope stack, also in runs that enter an id
\* that is already open.
C23_OpenIffOnStack == g_cats_trace.scope_ids = OnStack(g_cats_trace.scope_stack)

\* the same, for the runs that never enter an id that is already open
C23_OpenIffOnStackNoReentry ==
  (\A k \in DOMAIN hist :
     IsEntry(hist[k]) => Occurrences(hist[k].stack, hist[k].c.scope_id)
                           = {Len(hist[k].stack)})
  => g_cats_trace.scope_ids = OnStack(g_cats_trace.scope_stack)

----------------------------------------------------------------------------
(* C24 *)

\* what the last call printed in a build with the scope-exit warnings enabled
Warnings ==
  instrument_scope_exit_warnings(prev, last.call_id, last.scope_id,
                                 last.scope_type, last.di)

\* C24: with the scope-exit warnings enabled, an instrument_scope_exit call of
\* scope type parallel prints no unmatched-scope diagnostic, a call of any
\* other scope type whose id is not found prints one, and in neither case
\* does the call add an event to the log.
C24_ParallelExitSilent ==
  last.op = "scope_exit" =>
    /\ last.scope_type = CATS_SCOPE_TYPE_PARALLEL => Warnings = <<>>
    /\ ( /\ last.scope_type # CATS_SCOPE_TYPE_PARALLEL
         /\ last.scope_id \notin prev.scope_ids ) => Warnings # <<>>
    /\ last.scope_id \notin prev.scope_ids => g_cats_trace.events = prev.events

----------------------------------------------------------------------------
(* C25 *)

\* the engine when the while loop of the last instrument_scope_exit was left
AfterLoop ==
  scope_exit_loop([prev EXCEPT !.scope_ids = @ \ {last.scope_id}],
                  last.scope_id, TRUE, last.di)

\* C25: whenever instrument_scope_exit(id) passes the check of the set of
\* open scopes, its loop stops with id on top of the stack: the branch
\* "stack empty or top # id" after the loop is never taken, and in every
\* reachable state each open id is on the stack.
C25_LoopFindsId ==
  /\ g_cats_trace.scope_ids \subseteq OnStack(g_cats_trace.scope_stack)
  /\ ExitOfOpen =>
       /\ AfterLoop.scope_stack # <<>>
       /\ LastOf(AfterLoop.scope_stack) = last.scope_id

\* an exit that passed the check while the stack held, below its id, an id
\* that was no longer open
C25_Witness ==
  /\ ExitOfOpen
  /\ Len(prev.scope_stack) = 2
  /\ prev.scope_stack[1] \notin prev.scope_ids
  /\ prev.scope_stack[2] = last.scope_id

----------------------------------------------------------------------------
(* C26 *)

\* what already_recorded returned to the last call: the oracle of the engine
\* before the call, asked under the signature stored when the call asked
Returned ==
  already_recorded(
    [prev EXCEPT !.scope_stack = LastOf(hist).stack,
                 !.stack_id = IF prev.strategy = CATS_STACK_IDENTIFIER_STRATEGY_VERY_FAST
                              THEN LastOf(hist).sig ELSE @],
    last.call_id)

\* an earlier call since the last reset asked about the same callsite under
\* the same signature
AskedBefore ==
  \E i \in 1..(Len(hist) - 1) :
    /\ hist[i].queried
    /\ hist[i].c.call_id = last.call_id
    /\ hist[i].sig = LastOf(hist).sig

\* C26: already_recorded(call_id) returns true exactly when an earlier query
\* since the last reset carried the same callsite id under the same stored
\* signature; a query that returns false leaves the pair in the dedup memory;
\* and no call other than reset removes a pair from it.
C26_OracleRemembers ==
  hist # <<>> =>
    /\ LastOf(hist).queried =>
         /\ Returned <=> AskedBefore
         /\ last.call_id \in DOMAIN g_cats_trace.recorded_calls
         /\ LastOf(hist).sig \in g_cats_trace.recorded_calls[last.call_id]
    /\ \A c \in DOMAIN prev.recorded_calls :
         /\ c \in DOMAIN g_cats_trace.recorded_calls
         /\ prev.recorded_calls[c] \subseteq g_cats_trace.recorded_calls[c]

\* the oracle answered true for a pair asked two queries ago, after a query
\* of the same callsite under another signature
C26_Witness ==
  /\ hist # <<>>
  /\ LastOf(hist).queried
  /\ Returned
  /\ Cardinality(g_cats_trace.recorded_calls[last.call_id]) >= 2
  /\ Len(hist) >= 2
  /\ hist[Len(hist) - 1].queried
  /\ hist[Len(hist) - 1].c.call_id = last.call_id
  /\ hist[Len(hist) - 1].sig # LastOf(hist).sig

----------------------------------------------------------------------------
(* C27 *)

\* an earlier call since the last reset asked about the same callsite while
\* the scope stack held the same sequence of ids
AskedUnderSameStack ==
  \E i \in 1..(Len(hist) - 1) :
    /\ hist[i].queried
    /\ hist[i].c.call_id = last.call_id
    /\ hist[i].stack = LastOf(hist).stack

\* the number of events a reference engine, which keeps per callsite the
\* stack sequences it was asked under, logs for the calls of h
RECURSIVE ReferenceLogged(_)
ReferenceLogged(h) ==
  IF h = <<>> THEN 0
  ELSE LET o    == LastOf(h)
           seen == \E i \in 1..(Len(h) - 1) :
                     /\ h[i].queried
                     /\ h[i].c.call_id = o.c.call_id
                     /\ h[i].stack = o.stack
           n    == CASE ~o.queried \/ seen -> 0
                     [] o.c.op = "scope_exit" ->
                          1 + Len(o.stack) - Max(Occurrences(o.stack, o.c.scope_id))
                     [] OTHER -> 1
       IN  ReferenceLogged(Front(h)) + n

\* C27: in the build with the exact strategy already_recorded(call_id)
\* returns true exactly when the same callsite was asked about earlier (since
\* the last reset) while the scope stack held the same ordered sequence of
\* ids, and the engine has logged as many events as the reference engine.
C27_ExactIsInjective ==
  hist # <<>> =>
    /\ LastOf(hist).queried => (Returned <=> AskedUnderSameStack)
    /\ Len(Events) = ReferenceLogged(hist)

\* one callsite asked about under two stacks with the same sum of ids and
\* told apart
C27_Witness ==
  /\ hist # <<>>
  /\ LastOf(hist).queried
  /\ ~Returned
  /\ \E i \in 1..(Len(hist) - 1) :
       /\ hist[i].queried
       /\ hist[i].c.call_id = last.call_id
       /\ hist[i].stack # LastOf(hist).stack
       /\ stack_sum(hist[i].stack) = stack_sum(LastOf(hist).stack)

----------------------------------------------------------------------------
(* C28 *)

\* C28: in the default build, after every operation the stored signature
\* stack_id is the sum of the ids on the scope stack (the sums of the model
\* stay below 2^64, where the sum modulo 2^64 is the sum); it is 0 whenever
\* the stack is empty, also right after reset().
C28_StackIdIsSum ==
  g_cats_trace.stack_id = stack_sum(g_cats_trace.scope_stack)

\* the same, in the states that no reset() with a non-zero stack_id led to
C28_StackIdIsSumUnlessReset ==
  (~after_reset \/ reset_from.stack_id = 0) =>
    g_cats_trace.stack_id = stack_sum(g_cats_trace.scope_stack)

----------------------------------------------------------------------------
(* C29 *)

\* the thread whose scope an id is
Owner(id) == CHOOSE t \in DOMAIN ThreadScopes : id \in ThreadScopes[t]

\* C29: when two threads that pass the participation gate each issue their
\* own well-nested entries and exits with globally unique scope ids, an exit
\* call of one thread pops, closes and logs exits of scopes of that thread
\* only, in every interleaving.
C29_ExitStaysInThread ==
  (hist # <<>> /\ last.op = "scope_exit") =>
    LET t == Owner(last.scope_id)
        o == LastOf(hist)
    IN  /\ \A id \in OnStack(prev.scope_stack) \ OnStack(g_cats_trace.scope_stack) :
             Owner(id) = t
        /\ \A id \in prev.scope_ids \ g_cats_trace.scope_ids : Owner(id) = t
        /\ \A i \in o.first..(o.first + o.appended - 1) :
             Owner(Events[i].args.scope_id) = t

----------------------------------------------------------------------------
(* C30 *)

\* the threads inside an engine operation
InProgress == {t \in Threads : pc[t] = "locked"}

\* the lock is held by exactly the threads inside an operation, and by at most
\* one of them; the last scope exit popped at most the whole stack and logged
\* at most one event per popped element
LockDiscipline ==
  /\ mutex = InProgress
  /\ Cardinality(mutex) <= 1
  /\ (hist # <<>> /\ last.op = "scope_exit") =>
       LET o == LastOf(hist)
           popped == Len(prev.scope_stack) - Len(g_cats_trace.scope_stack)
       IN  /\ popped \in 0..Len(prev.scope_stack)
           /\ o.appended <= popped

C30_WitnessEarlyReturn ==
  /\ hist # <<>> /\ LastOf(hist).appended = 0
  /\ \E t \in Threads, u \in Threads : pc[t] = "locked" /\ pc[u] = "waiting"

----------------------------------------------------------------------------
(* C31 *)

IsMemoryUse(c) == c.op \in {"access", "dealloc"}

\* call i of hist was an access or a deallocation that asked the dedup memory,
\* was no duplicate and logged nothing: its address had no record
DroppedUntracked(i) ==
  /\ IsMemoryUse(hist[i].c)
  /\ ~hist[i].dup
  /\ hist[i].appended = 0

\* C31: instrument_access and instrument_dealloc ask the dedup memory before
\* they look the address up: after such a call its (callsite, signature) pair
\* is in the dedup memory also when it logged nothing, and a later access or
\* deallocation from the same callsite under the same signature logs nothing,
\* whether or not its address has a record by then.
C31_DroppedCallRemembered ==
  /\ (hist # <<>> /\ IsMemoryUse(last)) =>
       /\ last.call_id \in DOMAIN g_cats_trace.recorded_calls
       /\ LastOf(hist).sig \in g_cats_trace.recorded_calls[last.call_id]
  /\ \A i \in DOMAIN hist, j \in DOMAIN hist :
       (/\ i < j
        /\ DroppedUntracked(i)
        /\ IsMemoryUse(hist[j].c)
        /\ hist[j].c.call_id = hist[i].c.call_id
        /\ hist[j].sig = hist[i].sig) =>
         hist[j].dup /\ hist[j].appended = 0

\* an access to an address without a record was dropped, the address was
\* allocated, and the access from the same callsite was made again
C31_Witness ==
  /\ hist # <<>> /\ last.op = "access"
  /\ SomeRecordContains(prev.allocations, last.address)
  /\ Covers(prev.allocations, last.address)
  /\ CoveringRecord(prev.allocations, last.address).buffer_id # 0
  /\ \E i \in 1..(Len(hist) - 1) :
       /\ DroppedUntracked(i)
       /\ hist[i].c.op = "access"
       /\ hist[i].c.address = last.address
       /\ hist[i].c.call_id = last.call_id
       /\ hist[i].sig = LastOf(hist).sig

----------------------------------------------------------------------------
(* C32 *)

\* calls i < j of hist went to different entry points with the same callsite
\* id, both asked the dedup memory, and no other call before j asked about
\* that callsite
SharedCallsite(i, j) ==
  /\ i < j
  /\ hist[i].c.op # hist[j].c.op
  /\ hist[i].c.call_id = hist[j].c.call_id
  /\ hist[i].queried /\ hist[j].queried
  /\ \A k \in 1..(j - 1) :
       (k # i /\ hist[k].queried) => hist[k].c.call_id # hist[j].c.call_id

\* C32: the dedup memory is keyed by callsite id and stack signature only:
\* of two calls to different entry points that share a callsite id, whatever
\* their kinds, scope ids and addresses, both pass the dedup memory if and
\* only if their stack signatures differ.
C32_KeyedByCallsiteAndSignature ==
  \A i \in DOMAIN hist, j \in DOMAIN hist :
    SharedCallsite(i, j) =>
      ((~hist[i].dup /\ ~hist[j].dup) <=> (hist[i].sig # hist[j].sig))

\* the deallocation at callsite 5 came after the scope exit at callsite 5
\* under the same signature and was dropped, though its address had a record
C32_Witness ==
  /\ hist # <<>> /\ last.op = "dealloc"
  /\ last.address \in DOMAIN prev.allocations
  /\ LastOf(hist).dup
  /\ \E i \in 1..(Len(hist) - 1) :
       /\ SharedCallsite(i, Len(hist))
       /\ hist[i].c.op = "scope_exit"
       /\ hist[i].sig = LastOf(hist).sig

\* the order of the test: the exit at callsite 5 under the loop's signature,
\* the deallocation at callsite 5 under the function's, both logged
C32_WitnessTest ==
  /\ hist # <<>> /\ last.op = "dealloc"
  /\ LastOf(hist).appended = 1
  /\ \E i \in 1..(Len(hist) - 1) :
       /\ SharedCallsite(i, Len(hist))
       /\ hist[i].c.op = "scope_exit"
       /\ hist[i].appended >= 1
       /\ hist[i].sig # LastOf(hist).sig

----------------------------------------------------------------------------
(* C33 *)

\* C33: a step of save() leaves the engine (event log, allocation table, scope
\* stack, open scopes, dedup memory) as it was and returns, whether or not
\* the file could be written; a save() that could not write leaves the files
\* alone; and a save() that directly follows a save(), both written, leaves
\* the document the first one wrote.
C33_SaveReadsOnly ==
  [][ last'.op = "save" =>
        /\ g_cats_trace' = g_cats_trace
        /\ budget' = budget - 1
        /\ ~last'.io_ok => files' = files
        /\ last'.io_ok => Document' = save_document(g_cats_trace)
        /\ (last.op = "save" /\ last.io_ok /\ last'.io_ok) => files' = files ]_vars

\* two save() calls in a row, both written, with events in the log
C33_Witness ==
  /\ Len(hist) >= 2
  /\ last.op = "save" /\ last.io_ok
  /\ hist[Len(hist) - 1].c.op = "save" /\ hist[Len(hist) - 1].c.io_ok
  /\ Events # <<>>
  /\ Saved

\* a save() that could not write the file returned, with events in the log
C33_WitnessFailed ==
  /\ hist # <<>>
  /\ last.op = "save" /\ ~last.io_ok
  /\ Events # <<>>

----------------------------------------------------------------------------
(* C34 *)

\* C34: the scope id passed to instrument_scope_entry differs for every
\* dynamic activation of a lexical scope: no two entry calls of a run carry
\* the same scope id.
C34_FreshIdPerActivation ==
  \A i \in DOMAIN hist, j \in DOMAIN hist :
    (i < j /\ hist[i].c.op = "scope_entry" /\ hist[j].c.op = "scope_entry") =>
      hist[i].c.scope_id # hist[j].c.scope_id

====
